---- MODULE Spec2Model ----
(***************************************************************************)
(* Dataset processors, the cached feature dataset and the inference        *)
(* helpers of experiments/data_utils.py and experiments/misc_utils.py.     *)
(*                                                                         *)
(* A data directory is a function from the names of its raw files to their *)
(* lines; a line is a record holding the columns the processors read: id   *)
(* (column 0 of the MNLI layout) and label (the task's label column).  The *)
(* first line of a file is its header.                                     *)
(* The cache directory is a function from the paths of the existing cache  *)
(* files to the feature sequences they hold.  A feature is the label index *)
(* glue_convert_examples_to_features derives from the label vocabulary.    *)
(***************************************************************************)
EXTENDS Integers, Sequences, FiniteSets, TLC

VARIABLES proc, session, rawdir, cache, ds, ncalls, entry,
          trainer, model, inputs, result,
          influences, topn, indices

vars == <<proc, session, rawdir, cache, ds, ncalls, entry,
          trainer, model, inputs, result,
          influences, topn, indices>>

\* ------------------------------------------------------------------ bounds
\* data rows of a raw file
MaxRows == 2
\* calls in one run
MaxCalls == 2
\* predictions of a batch
MaxBatch == 2
\* items of an influence dictionary
MaxEntries == 3

\* ------------------------------------------------------- python's None
\* label of an InputExample of a test split
NoneLabel == "None"
\* label of a feature converted from an example without label
NoneIdx == -1
\* limit_length = None
NoLimit == -1

Min(S) == CHOOSE x \in S : \A y \in S : x <= y

SeqsUpTo(A, n) == UNION {[1..k -> A] : k \in 0..n}

\* --------------------------------------------------------------- registry
glue_processors ==
  [t \in {"mnli", "mnli-mm", "mnli-2", "mnli-2-mm", "hans", "amazon", "anli"} |->
     CASE t = "mnli" -> "MnliProcessor"
       [] t = "mnli-mm" -> "MnliMismatchedProcessor"
       [] t = "mnli-2" -> "TwoLabelMnliProcessor"
       [] t = "mnli-2-mm" -> "TwoLabelMnliMismatchedProcessor"
       [] t = "hans" -> "HansProcessor"
       [] t = "amazon" -> "WILDSAmazonProcessor"
       [] t = "anli" -> "ANLIProcessor"]

glue_tasks_num_labels ==
  [t \in {"mnli", "mnli-2", "hans", "amazon", "anli"} |->
     CASE t = "mnli" -> 3
       [] t = "mnli-2" -> 2
       [] t = "hans" -> 2
       [] t = "amazon" -> 5
       [] t = "anli" -> 3]

glue_output_modes ==
  [t \in {"mnli", "mnli-mm", "mnli-2", "mnli-2-mm", "hans", "amazon", "anli"} |->
     "classification"]

TaskNames == DOMAIN glue_processors

Splits == {"train", "dev", "test"}

TwoLabelProcessors == {"TwoLabelMnliProcessor", "TwoLabelMnliMismatchedProcessor"}

MnliProcessors == {"MnliProcessor", "MnliMismatchedProcessor"}

\* ------------------------------------------------------------- processors
get_labels(p) ==
  CASE p \in MnliProcessors -> <<"contradiction", "entailment", "neutral">>
    [] p \in TwoLabelProcessors -> <<"non_entailment", "entailment">>
    [] p = "HansProcessor" -> <<"non_entailment", "entailment">>
    [] p = "WILDSAmazonProcessor" -> <<"0", "1", "2", "3", "4">>
    [] p = "ANLIProcessor" -> <<"contradiction", "entailment", "neutral">>

\* mutant: only contradiction collapses
TwoLabelPreprocessLabelContradictionOnly(label) ==
  IF label \notin {"contradiction", "entailment", "neutral"}
  THEN [status |-> "ValueError", label |-> label]
  ELSE IF label \in {"contradiction"}
       THEN [status |-> "ok", label |-> "non_entailment"]
       ELSE [status |-> "ok", label |-> "entailment"]

\* _preprocess_label: [status, label]
TwoLabelPreprocessLabel(label) ==
  IF label \notin {"contradiction", "entailment", "neutral"}
  THEN [status |-> "ValueError", label |-> label]
  ELSE IF label \in {"contradiction", "neutral"}
       THEN [status |-> "ok", label |-> "non_entailment"]
       ELSE [status |-> "ok", label |-> "entailment"]

\* mutant: the hyphenated label is passed on as it is
HansPreprocessLabelRaw(label) ==
  IF label \notin {"non-entailment", "entailment"}
  THEN [status |-> "ValueError", label |-> label]
  ELSE [status |-> "ok", label |-> label]

HansPreprocessLabel(label) ==
  IF label \notin {"non-entailment", "entailment"}
  THEN [status |-> "ValueError", label |-> label]
  ELSE IF label \in {"non-entailment"}
       THEN [status |-> "ok", label |-> "non_entailment"]
       ELSE [status |-> "ok", label |-> "entailment"]

ANLILabelMap == [c \in {"e", "n", "c"} |->
  CASE c = "e" -> "entailment" [] c = "n" -> "neutral" [] c = "c" -> "contradiction"]

ANLIPreprocessLabel(label) ==
  IF label \notin DOMAIN ANLILabelMap
  THEN [status |-> "ValueError", label |-> label]
  ELSE [status |-> "ok", label |-> ANLILabelMap[label]]

StartsWithTest(set_type) == set_type \in {"test", "test_matched", "test_mismatched"}

\* the label one row gets in _create_examples of processor p
RowLabel(p, set_type, line) ==
  CASE p \in MnliProcessors ->
         [status |-> "ok",
          label |-> IF StartsWithTest(set_type) THEN NoneLabel ELSE line.label]
    [] p \in TwoLabelProcessors ->
         IF StartsWithTest(set_type)
         THEN [status |-> "ok", label |-> NoneLabel]
         ELSE TwoLabelPreprocessLabel(line.label)
    [] p = "HansProcessor" -> HansPreprocessLabel(line.label)
    [] p = "WILDSAmazonProcessor" -> [status |-> "ok", label |-> line.label]
    [] p = "ANLIProcessor" -> ANLIPreprocessLabel(line.label)

\* the second part of the guid: line[0] for the MNLI layouts, else the
\* 0-based index i of the line
RowGuid(p, k, line) ==
  IF p \in MnliProcessors \cup TwoLabelProcessors THEN line.id ELSE k - 1

\* the lines _create_examples turns into examples: all but the first
DataRows(lines) == 2..Len(lines)

\* _create_examples: [status, examples, row]; row is the 1-based position of
\* the line whose label raised
CreateExamples(p, lines, set_type) ==
  LET res == [k \in DataRows(lines) |-> RowLabel(p, set_type, lines[k])]
      bad == {k \in DataRows(lines) : res[k].status # "ok"}
  IN IF bad # {}
     THEN [status |-> "ValueError", msg |-> "Label not recognized.",
           examples |-> <<>>, row |-> Min(bad)]
     ELSE [status |-> "ok", msg |-> "",
           examples |-> [j \in 1..Cardinality(DataRows(lines)) |->
                           [guid |-> <<set_type, RowGuid(p, j + 1, lines[j + 1])>>,
                            label |-> res[j + 1].label]],
           row |-> 0]

\* the set_type each get_*_examples passes on
SetType(p, mode) ==
  CASE p \in {"MnliProcessor", "TwoLabelMnliProcessor"} ->
         (CASE mode = "train" -> "train" [] mode = "dev" -> "dev_matched"
            [] mode = "test" -> "test_matched")
    [] p \in {"MnliMismatchedProcessor", "TwoLabelMnliMismatchedProcessor"} ->
         (CASE mode = "train" -> "train" [] mode = "dev" -> "dev_mismatched"
            [] mode = "test" -> "test_mismatched")
    [] OTHER -> mode

\* the file each get_*_examples reads in data_dir
RawFileName(p, mode) ==
  CASE p \in {"MnliProcessor", "TwoLabelMnliProcessor"} ->
         (CASE mode = "train" -> "train.tsv" [] mode = "dev" -> "dev_matched.tsv"
            [] mode = "test" -> "test_matched.tsv")
    [] p \in {"MnliMismatchedProcessor", "TwoLabelMnliMismatchedProcessor"} ->
         (CASE mode = "train" -> "train.tsv" [] mode = "dev" -> "dev_mismatched.tsv"
            [] mode = "test" -> "test_mismatched.tsv")
    [] p = "HansProcessor" ->
         (CASE mode = "train" -> "heuristics_train_set.txt"
            [] mode = "dev" -> "heuristics_evaluation_set.txt"
            [] mode = "test" -> "")
    [] p = "WILDSAmazonProcessor" ->
         (CASE mode = "train" -> "amazon.train.tsv" [] mode = "dev" -> "amazon.val.tsv"
            [] mode = "test" -> "amazon.test.tsv")
    [] p = "ANLIProcessor" ->
         (CASE mode = "train" -> "train.tsv" [] mode = "dev" -> "valid.tsv"
            [] mode = "test" -> "test.tsv")

\* get_train_examples / get_dev_examples / get_test_examples of processor p
\* on the data directory dir
GetExamples(p, mode, dir) ==
  IF p = "HansProcessor" /\ mode = "test"
  THEN [status |-> "NotImplementedError", msg |-> "", examples |-> <<>>, row |-> 0]
  ELSE IF RawFileName(p, mode) \notin DOMAIN dir
       THEN [status |-> "FileNotFoundError", msg |-> "No such file or directory",
             examples |-> <<>>, row |-> 0]
       ELSE CreateExamples(p, dir[RawFileName(p, mode)], SetType(p, mode))

\* ----------------------------------------------------------------- inputs
Header == [id |-> -1, label |-> "label"]

\* the raw label strings the files of a task are drawn from: the task's
\* labels and one string outside them
RawLabelInputs(task) ==
  CASE task \in {"mnli", "mnli-mm", "mnli-2", "mnli-2-mm"} ->
         {"contradiction", "entailment", "neutral", "-"}
    [] task = "hans" -> {"non-entailment", "entailment", "neutral"}
    [] task = "amazon" -> {"0", "1", "2", "3", "4", "5"}
    [] task = "anli" -> {"e", "n", "c", "x"}
    [] OTHER -> {"x"}

\* the lines of a file: the header and one line per label
Lines(labels) ==
  [k \in 1..(Len(labels) + 1) |->
     IF k = 1 THEN Header ELSE [id |-> k - 2, label |-> labels[k - 1]]]

\* the files over an alphabet of raw labels: the file without lines and the
\* files of a header and up to MaxRows data rows
FilesOver(alphabet) == {<<>>} \cup {Lines(labels) : labels \in SeqsUpTo(alphabet, MaxRows)}

\* the directories that hold some of the files `names`
DirsOver(names, files) == UNION {[N -> files] : N \in SUBSET names}

\* the raw files a split of a task is read from
SplitFiles(task, mode) ==
  IF task \notin TaskNames \/ (task = "hans" /\ mode = "test") THEN {}
  ELSE {RawFileName(glue_processors[task], mode)}

\* -------------------------------------------------------- CustomGlueDataset
\* the tokenizer classes of the label-swap test
SwapTokenizers == {"RobertaTokenizer", "RobertaTokenizerFast", "XLMRobertaTokenizer",
                   "BartTokenizer", "BartTokenizerFast"}

SwapTasks == {"mnli", "mnli-mm", "mnli-2", "mnli-2-mm", "hans"}

\* cache_dir = None
NoDir == ""

\* cached_features_file: the directory and the four parts of the file name
CachedFeaturesFile(args, tokenizer, mode, cache_dir) ==
  <<IF cache_dir # NoDir THEN cache_dir ELSE args.data_dir,
    <<"cached", mode, tokenizer, args.max_seq_length, args.task_name>> >>

\* label_list after the swap of label_list[1] and label_list[2]:
\* [status, label_list]; the vocabulary of a two-label task has no index 2
LabelList(task_name, tokenizer) ==
  LET labels == get_labels(glue_processors[task_name])
  IN IF task_name \in SwapTasks /\ tokenizer \in SwapTokenizers
     THEN IF Len(labels) < 3
          THEN [status |-> "IndexError", label_list |-> labels]
          ELSE [status |-> "ok",
                label_list |-> [labels EXCEPT ![2] = labels[3], ![3] = labels[2]]]
     ELSE [status |-> "ok", label_list |-> labels]

\* mutant: the cache file is read only when overwrite_cache is set
UseCacheInverted(exists, overwrite_cache) == exists /\ overwrite_cache

\* the test that decides between loading the cache file and converting
UseCache(exists, overwrite_cache) == exists /\ ~overwrite_cache

\* mutant: the limit is ignored
LimitExamplesNone(examples, limit_length) == examples

\* examples[:limit_length]
LimitExamples(examples, limit_length) ==
  IF limit_length # NoLimit
  THEN SubSeq(examples, 1, IF limit_length < Len(examples) THEN limit_length
                           ELSE Len(examples))
  ELSE examples

\* 0-based position of a label in label_list (label_map)
LabelIndex(label_list, label) ==
  (CHOOSE i \in DOMAIN label_list : label_list[i] = label) - 1

\* glue_convert_examples_to_features: [status, features]; the label of a
\* feature is None for an example without label and label_map[label]
\* otherwise, which raises KeyError for a label outside label_list.  On an
\* error, features holds what was converted before it.
ConvertExamples(examples, label_list) ==
  LET bad == {j \in DOMAIN examples :
                /\ examples[j].label # NoneLabel
                /\ examples[j].label \notin {label_list[i] : i \in DOMAIN label_list}}
      upto == IF bad = {} THEN Len(examples) ELSE Min(bad) - 1
  IN [status |-> IF bad = {} THEN "ok" ELSE "KeyError",
      msg |-> IF bad = {} THEN "" ELSE "label",
      features |-> [j \in 1..upto |->
                      IF examples[j].label = NoneLabel THEN NoneIdx
                      ELSE LabelIndex(label_list, examples[j].label)]]

\* torch.save(self.features, cached_features_file)
Save(fs, path, features) ==
  [q \in DOMAIN fs \cup {path} |-> IF q = path THEN features ELSE fs[q]]

\* mutant: the features converted so far are saved when the conversion raises
CacheAfterConvertAlways(fs, path, conv) == Save(fs, path, conv.features)

\* the cache directory after the conversion: torch.save is reached only when
\* glue_convert_examples_to_features returned
CacheAfterConvert(fs, path, conv) ==
  IF conv.status = "ok" THEN Save(fs, path, conv.features) ELSE fs

Dataset(args, tokenizer, mode, limit_length, path, status, msg) ==
  [status |-> status, msg |-> msg, task_name |-> args.task_name, tokenizer |-> tokenizer,
   mode |-> mode, limit_length |-> limit_length,
   overwrite_cache |-> args.overwrite_cache, path |-> path,
   label_list |-> <<>>, features |-> <<>>, loaded |-> FALSE,
   rawread |-> FALSE, nexamples |-> 0, converted |-> FALSE]

\* CustomGlueDataset.__init__ on the cache directory fs and the data
\* directory dir: [ds, fs], the object (status "ok") or the exception
\* raised, and the cache directory left behind
NewDataset(args, tokenizer, limit_length, mode, cache_dir, fs, dir) ==
  LET path == CachedFeaturesFile(args, tokenizer, mode, cache_dir)
      D(status, msg) == Dataset(args, tokenizer, mode, limit_length, path, status, msg)
  IN IF args.task_name \notin DOMAIN glue_processors
     THEN [ds |-> D("KeyError", "task_name"), fs |-> fs]
     ELSE IF mode \notin Splits
     THEN [ds |-> D("KeyError", "mode is not a valid split name"), fs |-> fs]
     ELSE
       LET ll == LabelList(args.task_name, tokenizer)
       IN IF ll.status # "ok"
          THEN [ds |-> D(ll.status, "list index out of range"), fs |-> fs]
          ELSE IF UseCache(path \in DOMAIN fs, args.overwrite_cache)
          THEN [ds |-> [D("ok", "") EXCEPT !.label_list = ll.label_list,
                                       !.features = fs[path], !.loaded = TRUE],
                fs |-> fs]
          ELSE
            LET ex == GetExamples(glue_processors[args.task_name], mode, dir)
                D1 == [D(ex.status, ex.msg) EXCEPT !.label_list = ll.label_list,
                                           !.rawread = ex.status \in {"ok", "ValueError"}]
            IN IF ex.status # "ok"
               THEN [ds |-> D1, fs |-> fs]
               ELSE
                 LET examples == LimitExamples(ex.examples, limit_length)
                     conv == ConvertExamples(examples, ll.label_list)
                     D2 == [D1 EXCEPT !.status = conv.status,
                                      !.msg = conv.msg,
                                      !.nexamples = Len(examples),
                                      !.converted = TRUE]
                 IN [ds |-> IF conv.status = "ok"
                            THEN [D2 EXCEPT !.features = conv.features]
                            ELSE D2,
                     fs |-> CacheAfterConvert(fs, path, conv)]

\* ------------------------------------------------------------ entry points
CreateDatasetsTasks == {"mnli", "mnli-2", "hans", "amazon", "anli"}

\* constants.GLUE_DATA_DIR, HANS_DATA_DIR, Amazon_DATA_DIR, ANLI_DATA_DIR
DefaultDataDir(task_name) ==
  CASE task_name \in {"mnli", "mnli-2"} -> "GLUE_DATA_DIR"
    [] task_name = "hans" -> "HANS_DATA_DIR"
    [] task_name = "amazon" -> "Amazon_DATA_DIR"
    [] task_name = "anli" -> "ANLI_DATA_DIR"

\* max_seq_length of create_datasets
MaxSeqLength == 128

\* F applied to the value of v
Let(v, F(_)) == CHOOSE y \in {F(x) : x \in {v}} : TRUE

\* create_datasets on the cache directory fs and the data directory dir:
\* [status, msg, built, fs]; built holds the datasets constructed, the one
\* whose construction raised included
CreateDatasets(task_name, tokenizer, data_dir, create_test_dataset, fs, dir) ==
  IF task_name \notin CreateDatasetsTasks
  THEN [status |-> "ValueError", msg |-> "Unrecognized task", built |-> <<>>, fs |-> fs]
  ELSE
    LET data_args == [task_name |-> task_name,
                      data_dir |-> IF data_dir = NoDir THEN DefaultDataDir(task_name)
                                   ELSE data_dir,
                      max_seq_length |-> MaxSeqLength,
                      overwrite_cache |-> FALSE]
        Raised(r, built) ==
          [status |-> r.ds.status, msg |-> r.ds.msg, built |-> built, fs |-> r.fs]
    IN Let(NewDataset(data_args, tokenizer, NoLimit, "train", NoDir, fs, dir),
         LAMBDA train :
           IF train.ds.status # "ok" THEN Raised(train, <<train.ds>>)
           ELSE
             Let(NewDataset(data_args, tokenizer, NoLimit, "dev", NoDir, train.fs, dir),
               LAMBDA eval :
                 IF eval.ds.status # "ok" THEN Raised(eval, <<train.ds, eval.ds>>)
                 ELSE IF ~create_test_dataset
                 THEN [status |-> "ok", msg |-> "",
                       built |-> <<train.ds, eval.ds>>, fs |-> eval.fs]
                 ELSE
                   Let(NewDataset(data_args, tokenizer, NoLimit, "test", NoDir,
                                  eval.fs, dir),
                     LAMBDA test :
                       Raised(test, <<train.ds, eval.ds, test.ds>>))))

\* simple_accuracy, (preds == labels).mean(), as <<equal, all>>
SimpleAccuracy(preds, labels) ==
  <<Cardinality({i \in DOMAIN preds : preds[i] = labels[i]}), Len(preds)>>

\* glue_compute_metrics: [status, msg, acc]
GlueComputeMetrics(task_name, preds, labels) ==
  IF Len(preds) # Len(labels)
  THEN [status |-> "AssertionError", msg |-> "", acc |-> <<0, 0>>]
  ELSE IF task_name \notin DOMAIN glue_processors
  THEN [status |-> "ValueError", msg |-> "Unrecognized", acc |-> <<0, 0>>]
  ELSE [status |-> "ok", msg |-> "", acc |-> SimpleAccuracy(preds, labels)]

\* the messages of the exceptions raised for the task name
TaskRejectionMessages == {"task_name", "Unrecognized task", "Unrecognized"}

\* ----------------------------------------------------------------- inputs
\* tokenizer classes of the runs: one outside the label-swap test, two in it
Tokenizers == {"BertTokenizer", "RobertaTokenizer", "BartTokenizerFast"}

\* registered task names and one that is not
TaskNameInputs == TaskNames \cup {"sst-2"}

LimitInputs == {NoLimit} \cup 0..MaxRows

Args(task_name, overwrite_cache) ==
  [task_name |-> task_name, data_dir |-> "data_dir",
   max_seq_length |-> MaxSeqLength, overwrite_cache |-> overwrite_cache]

\* ------------------------------------------------------------ idle values
NoProc == [op |-> "none", task |-> "", mode |-> "",
           status |-> "none", examples |-> <<>>, row |-> 0, labels |-> <<>>]

NoSession == [task_name |-> "", tokenizer |-> "", mode |-> ""]

NoDataset == Dataset(Args("", FALSE), "", "", NoLimit, <<>>, "none", "")

EntryPoints == {"CustomGlueDataset", "create_datasets", "glue_compute_metrics"}

\* no entry point called yet
NoEntry == [fn \in EntryPoints |->
              [status |-> "none", msg |-> "", reads |-> 0, writes |-> 0,
               acc |-> <<0, 0>>]]

\* ------------------------------------------------------- inference helpers
\* a tensor is the device it lives on and its data, one entry per example of
\* the batch; NoneTensor is python's None where a tensor is expected
Tensor(device, data) == [device |-> device, data |-> data]

NoneTensor == [device |-> "None", data |-> <<>>]

NoneLoss == -1

\* inputs.get(k)
Get(batch, k) == IF k \in DOMAIN batch THEN batch[k] ELSE NoneTensor

\* has_labels of predict
HasLabels(batch) ==
  \E k \in {"labels", "lm_labels", "masked_lm_labels"} : Get(batch, k) # NoneTensor

\* inputs[k] = v.to(trainer.args.device), for every tensor of the batch
MoveToDevice(batch, device) ==
  [k \in DOMAIN batch |->
     IF batch[k] # NoneTensor THEN Tensor(device, batch[k].data) ELSE batch[k]]

\* the classes the classifier head scores
NumLabels == {0, 1}

\* model(**inputs) with labels: (loss, logits).  The network is outside the
\* repository: its logit for an example is what its weights give the first
\* token, or under dropout (training mode) the noise drawn for the call; its
\* loss stands as the number of examples it gets wrong; a label outside the
\* head's classes raises in the loss.
Forward(m, batch, noise) ==
  LET ids == batch["input_ids"].data
      labels == batch["labels"].data
      logits == [i \in DOMAIN ids |->
                   IF m.training THEN noise[i] ELSE m.weights[ids[i][1]]]
  IN IF \E i \in DOMAIN labels : labels[i] \notin NumLabels
     THEN [status |-> IF batch["labels"].device = "cpu" THEN "IndexError"
                      ELSE "RuntimeError",
           loss |-> NoneLoss, logits |-> <<>>]
     ELSE [status |-> "ok",
           loss |-> Cardinality({i \in DOMAIN ids : logits[i] # labels[i]}),
           logits |-> logits]

\* what predict returns or raises, and the batch as the call leaves it:
\* [status, inputs, invoked, preds, label_ids, step_eval_loss]
PredictRaised(status, batch, invoked) ==
  [status |-> status, inputs |-> batch, invoked |-> invoked,
   preds |-> <<>>, label_ids |-> <<>>, step_eval_loss |-> NoneLoss]

\* trainer.args.past_index >= 0
PastIndexEnabled(past_index) == past_index >= 0

\* predict(trainer, model, inputs)
Predict(t, m, batch, noise) ==
  IF PastIndexEnabled(t.args.past_index) THEN PredictRaised("ValueError", batch, FALSE)
  ELSE
    LET has_labels == HasLabels(batch)
        moved == MoveToDevice(batch, t.args.device)
    IN IF "labels" \notin DOMAIN moved THEN PredictRaised("KeyError", moved, FALSE)
       ELSE IF moved["labels"] = NoneTensor THEN PredictRaised("TypeError", moved, FALSE)
       ELSE
         LET shifted == [moved EXCEPT !["labels"] =
                           Tensor(@.device, [i \in DOMAIN @.data |-> @.data[i] - 1])]
         IN Let(Forward(m, shifted, noise),
              LAMBDA outputs :
                IF outputs.status # "ok" THEN PredictRaised(outputs.status, shifted, TRUE)
                ELSE [status |-> "ok", inputs |-> shifted, invoked |-> TRUE,
                      preds |-> outputs.logits,
                      label_ids |-> shifted["labels"].data,
                      step_eval_loss |-> IF has_labels THEN outputs.loss
                                         ELSE NoneLoss])

\* the encoder compute_BERT_CLS_feature picks by the attributes of the model
Encoder(m) ==
  IF "bert" \in m.attrs THEN "bert"
  ELSE IF "distilbert" \in m.attrs THEN "distilbert"
  ELSE IF "roberta" \in m.attrs THEN "roberta"
  ELSE IF "deberta" \in m.attrs THEN "deberta"
  ELSE IF "model" \in m.attrs THEN "model.encoder"
  ELSE "AttributeError"

\* the hidden state an encoder gives a token
Hidden(encoder, token) == <<encoder, token>>

\* model.training is True
InTraining(m) == m.training

\* compute_BERT_CLS_feature(model, input_ids, attention_mask, token_type_ids):
\* [status, invoked, encoder, output], output the hidden state of the last
\* position of every example
ComputeBERTCLSFeature(m, input_ids, attention_mask, token_type_ids) ==
  LET raised(status) ==
        [status |-> status, invoked |-> FALSE, encoder |-> "", output |-> <<>>]
  IN IF InTraining(m) THEN raised("ValueError")
     ELSE IF Encoder(m) = "AttributeError" THEN raised("AttributeError")
     ELSE IF \/ input_ids = NoneTensor
             \/ attention_mask = NoneTensor
             \/ Encoder(m) = "bert" /\ token_type_ids = NoneTensor
     THEN raised("AttributeError")
     ELSE [status |-> "ok", invoked |-> TRUE, encoder |-> Encoder(m),
           output |-> [i \in DOMAIN input_ids.data |->
                         Hidden(Encoder(m),
                                input_ids.data[i][Len(input_ids.data[i])])]]

\* ----------------------------------------------------------------- inputs
\* the token sequences of an example
ExampleInputs == {<<0>>, <<0, 1>>, <<1, 0>>}

\* the 1-based labels of a batch, and 0
BatchLabelInputs == 0..2

\* the batches of n examples: input_ids and attention_mask always, labels a
\* tensor, None or missing, token_type_ids a tensor or None
BatchesOf(n) ==
  LET ones == Tensor("cpu", [i \in 1..n |-> 1])
  IN {[k \in keys |->
         CASE k = "input_ids" -> Tensor("cpu", ids)
           [] k = "attention_mask" -> ones
           [] k = "token_type_ids" -> tt
           [] k = "labels" -> labels] :
        keys \in {{"input_ids", "attention_mask", "token_type_ids"},
                  {"input_ids", "attention_mask", "token_type_ids", "labels"}},
        ids \in [1..n -> ExampleInputs],
        tt \in {ones, NoneTensor},
        labels \in {Tensor("cpu", l) : l \in [1..n -> BatchLabelInputs]}
                     \cup {NoneTensor}}

BatchInputs == UNION {BatchesOf(n) : n \in 1..MaxBatch}

ModelInputs ==
  [training : BOOLEAN,
   attrs : {{"bert"}, {"roberta"}, {"model"}, {}},
   weights : [{0, 1} -> NumLabels]]

TrainerInputs == [args : [past_index : {-1, 0}, device : {"cpu", "cuda"}]]

\* ------------------------------------------------------------ idle values
NoTrainer == [args |-> [past_index |-> -1, device |-> "cpu"]]

NoModel == [training |-> FALSE, attrs |-> {}, weights |-> [x \in {0, 1} |-> 0]]

NoResult ==
  [predict |-> PredictRaised("none", <<>>, FALSE),
   compute_BERT_CLS_feature |->
     [status |-> "none", invoked |-> FALSE, encoder |-> "", output |-> <<>>]]

\* no inference helper in use
NoInference ==
  /\ trainer = NoTrainer
  /\ model = NoModel
  /\ inputs = <<>>
  /\ result = NoResult

\* ------------------------------------------------------- influence indices
\* an influence dictionary is the sequence of its items <<key, value>> in
\* insertion order, the keys distinct; the values are floats, here the
\* integers of a small range and NaN
NaN == 99

\* python's None where n is expected
NoneN == -99

\* a < b on floats: false whenever one side is NaN
Lt(a, b) == a # NaN /\ b # NaN /\ a < b

\* items[::-1]
Reversed(items) == [i \in 1..Len(items) |-> items[Len(items) + 1 - i]]

\* count_run of list.sort on the keys pair[1]: the length of the run the
\* list starts with, and whether it descends
CountRun(items) ==
  IF Len(items) <= 1 THEN [len |-> Len(items), descending |-> FALSE]
  ELSE
    LET descending == Lt(items[2][2], items[1][2])
        Continues(j) == Lt(items[j][2], items[j - 1][2]) = descending
        runs == {k \in 2..Len(items) : \A j \in 3..k : Continues(j)}
    IN [len |-> CHOOSE k \in runs : \A other \in runs : other <= k,
        descending |-> descending]

\* the place binarysort finds for pivot in the sorted items[l+1..r]
RECURSIVE Bisect(_, _, _, _)
Bisect(items, pivot, l, r) ==
  IF l >= r THEN l
  ELSE LET p == l + (r - l) \div 2
       IN IF Lt(pivot[2], items[p + 1][2])
          THEN Bisect(items, pivot, l, p)
          ELSE Bisect(items, pivot, p + 1, r)

\* binarysort of list.sort: items[1..start] is sorted, the rest is inserted
\* one by one
RECURSIVE BinarySort(_, _)
BinarySort(items, start) ==
  IF start >= Len(items) THEN items
  ELSE LET pivot == items[start + 1]
           at == Bisect(items, pivot, 0, start)
           placed == [i \in 1..Len(items) |->
                        IF i <= at THEN items[i]
                        ELSE IF i = at + 1 THEN pivot
                        ELSE IF i <= start + 1 THEN items[i - 1]
                        ELSE items[i]]
       IN BinarySort(placed, start + 1)

\* sorted(list(d.items()), key=lambda pair: pair[1]), as list.sort does it
\* for a list shorter than its minimal run
SortedItems(d) ==
  LET run == CountRun(d)
      head == IF run.descending
              THEN [i \in 1..Len(d) |->
                      IF i <= run.len THEN d[run.len + 1 - i] ELSE d[i]]
              ELSE d
  IN BinarySort(head, run.len)

\* [pair[0] for pair in items]
Keys(items) == [i \in 1..Len(items) |-> items[i][1]]

\* the items condition_func holds for: k_v[1] < 0.0 and k_v[1] > 0.0
NegativeInfluence(d) == {d[i] : i \in {j \in 1..Len(d) : Lt(d[j][2], 0)}}

PositiveInfluence(d) == {d[i] : i \in {j \in 1..Len(d) : Lt(0, d[j][2])}}

\* sort_dict_keys_by_vals_with_conditions(d, condition_func), condition_func
\* given by the items it holds for
sort_dict_keys_by_vals_with_conditions(d, condition_func) ==
  LET IsIn(pair) == pair \in condition_func
  IN Keys(SelectSeq(SortedItems(d), IsIn))

\* helpful_indices before the cut
HelpfulIndices(d) == sort_dict_keys_by_vals_with_conditions(d, NegativeInfluence(d))

\* harmful_indices, the reversal left out
HarmfulIndicesNotReversed(d) ==
  sort_dict_keys_by_vals_with_conditions(d, PositiveInfluence(d))

\* harmful_indices before the cut
HarmfulIndices(d) ==
  Reversed(sort_dict_keys_by_vals_with_conditions(d, PositiveInfluence(d)))

\* s[:n]
SliceTo(s, n) ==
  LET stop == IF n >= 0 THEN n ELSE Len(s) + n
      upto == IF stop < 0 THEN 0 ELSE IF stop > Len(s) THEN Len(s) ELSE stop
  IN SubSeq(s, 1, upto)

\* get_helpful_harmful_indices_from_influences_dict(d, n):
\* [status, msg, helpful, harmful]
get_helpful_harmful_indices_from_influences_dict(d, n) ==
  LET helpful_indices == HelpfulIndices(d)
      harmful_indices == HarmfulIndices(d)
      raised(msg) == [status |-> "ValueError", msg |-> msg,
                      helpful |-> <<>>, harmful |-> <<>>]
  IN IF n = NoneN
     THEN [status |-> "ok", msg |-> "",
           helpful |-> helpful_indices, harmful |-> harmful_indices]
     ELSE IF Len(helpful_indices) < n THEN raised("helpful_indices")
     ELSE IF Len(harmful_indices) < n THEN raised("harmful_indices")
     ELSE [status |-> "ok", msg |-> "",
           helpful |-> SliceTo(helpful_indices, n),
           harmful |-> SliceTo(harmful_indices, n)]

\* ----------------------------------------------------------------- inputs
InfluenceInputs == -2..2 \cup {NaN}

\* the dictionaries of up to MaxEntries items, the keys inserted in rising or
\* in falling order
DictInputs ==
  UNION {{[i \in 1..k |-> <<keys[i], vals[i]>>] :
            keys \in {[i \in 1..k |-> i], [i \in 1..k |-> k + 1 - i]},
            vals \in [1..k -> InfluenceInputs]} : k \in 0..MaxEntries}

TopNInputs == {NoneN} \cup -1..MaxEntries

\* ------------------------------------------------------------ idle values
NoIndices == [status |-> "none", msg |-> "", helpful |-> <<>>, harmful |-> <<>>]

\* no influence dictionary in use
NoInfluences ==
  /\ influences = <<>>
  /\ topn = NoneN
  /\ indices = NoIndices

\* ------------------------------------------------- processor calls (SpecProc)
\* a processor is stateless: one run is one call, on the task, split and raw
\* file drawn at the start
ProcGetExamples ==
  /\ proc.op = "none"
  /\ LET r == GetExamples(glue_processors[proc.task], proc.mode, rawdir)
     IN proc' = [proc EXCEPT !.op = "get_examples", !.status = r.status,
                             !.examples = r.examples, !.row = r.row]
  /\ UNCHANGED <<session, rawdir, cache, ds, ncalls, entry,
               trainer, model, inputs, result,
                 influences, topn, indices>>

ProcGetLabels ==
  /\ proc.op = "none"
  /\ proc' = [proc EXCEPT !.op = "get_labels", !.status = "ok",
                          !.labels = get_labels(glue_processors[proc.task])]
  /\ UNCHANGED <<session, rawdir, cache, ds, ncalls, entry,
               trainer, model, inputs, result,
                 influences, topn, indices>>

InitProc ==
  /\ \E task \in TaskNames, mode \in Splits :
       /\ proc = [NoProc EXCEPT !.task = task, !.mode = mode]
       /\ rawdir \in DirsOver(SplitFiles(task, mode), FilesOver(RawLabelInputs(task)))
  /\ session = NoSession
  /\ cache = <<>>
  /\ ds = NoDataset
  /\ ncalls = 0
  /\ entry = NoEntry
  /\ NoInference
  /\ NoInfluences

NextProc == ProcGetExamples \/ ProcGetLabels

SpecProc == InitProc /\ [][NextProc]_vars

\* ------------------------------------------- dataset constructions (Spec)
\* the raw label strings the data directory of a run is drawn from: two of
\* the task's labels and one string outside them
DatasetLabelInputs(task) ==
  CASE task \in {"mnli", "mnli-mm", "mnli-2", "mnli-2-mm"} ->
         {"contradiction", "entailment", "-"}
    [] task = "hans" -> {"non-entailment", "entailment", "neutral"}
    [] task = "amazon" -> {"0", "4", "5"}
    [] task = "anli" -> {"e", "c", "x"}
    [] OTHER -> {"x"}

\* One run constructs datasets for one cache key: the task name, tokenizer
\* class and split drawn at the start, on a data directory that holds the
\* raw file of the split or nothing.
Construct ==
  /\ ncalls < MaxCalls
  /\ \E limit_length \in LimitInputs, overwrite_cache \in BOOLEAN :
       LET r == NewDataset(Args(session.task_name, overwrite_cache),
                           session.tokenizer, limit_length, session.mode,
                           NoDir, cache, rawdir)
       IN /\ ds' = r.ds
          /\ cache' = r.fs
  /\ ncalls' = ncalls + 1
  /\ UNCHANGED <<proc, session, rawdir, entry,
               trainer, model, inputs, result,
                 influences, topn, indices>>

\* a raw file is deleted from the data directory
DeleteRawFile ==
  /\ \E name \in DOMAIN rawdir :
       rawdir' = [n \in DOMAIN rawdir \ {name} |-> rawdir[n]]
  /\ UNCHANGED <<proc, session, cache, ds, ncalls, entry,
               trainer, model, inputs, result,
                 influences, topn, indices>>

Init ==
  /\ proc = NoProc
  /\ \E task_name \in TaskNameInputs, tokenizer \in Tokenizers, mode \in Splits :
       /\ session = [task_name |-> task_name, tokenizer |-> tokenizer, mode |-> mode]
       /\ rawdir \in DirsOver(SplitFiles(task_name, mode),
                              FilesOver(DatasetLabelInputs(task_name)))
  /\ cache = <<>>
  /\ ds = NoDataset
  /\ ncalls = 0
  /\ entry = NoEntry
  /\ NoInference
  /\ NoInfluences

Next == Construct \/ DeleteRawFile

Spec == Init /\ [][Next]_vars

\* ------------------------------------------------- entry points (SpecEntry)
ModeInputs == Splits \cup {"val"}

CacheDirInputs == {NoDir, "cache_dir"}

DataDirInputs == {NoDir, "data_dir"}

PredInputs == SeqsUpTo({0, 1}, MaxBatch)

\* the raw label string of the entry-point runs: one of the task's labels
EntryLabelInputs(task) ==
  CASE task \in {"mnli", "mnli-mm", "mnli-2", "mnli-2-mm"} -> {"entailment"}
    [] task = "hans" -> {"non-entailment"}
    [] task = "amazon" -> {"4"}
    [] task = "anli" -> {"e"}
    [] OTHER -> {"x"}

\* the raw files of the data directories of the entry-point runs: a header
\* and one data row
EntryFiles(task) == {Lines(<<l>>) : l \in EntryLabelInputs(task)}

Count(dss, P(_)) == Cardinality({i \in DOMAIN dss : P(dss[i])})

ReadRaw(d) == d.rawread

WroteCache(d) == d.status = "ok" /\ d.converted

EntryNewDataset ==
  /\ entry["CustomGlueDataset"].status = "none"
  /\ \E mode \in ModeInputs, overwrite_cache \in BOOLEAN, cache_dir \in CacheDirInputs :
       LET r == NewDataset(Args(session.task_name, overwrite_cache),
                           session.tokenizer, NoLimit, mode, cache_dir, cache, rawdir)
       IN /\ ds' = r.ds
          /\ cache' = r.fs
          /\ entry' = [entry EXCEPT !["CustomGlueDataset"] =
                         [status |-> r.ds.status, msg |-> r.ds.msg,
                          reads |-> Count(<<r.ds>>, ReadRaw),
                          writes |-> Count(<<r.ds>>, WroteCache), acc |-> <<0, 0>>]]
  /\ UNCHANGED <<proc, session, rawdir, ncalls,
               trainer, model, inputs, result,
                 influences, topn, indices>>

EntryCreateDatasets ==
  /\ entry["create_datasets"].status = "none"
  /\ \E data_dir \in DataDirInputs, create_test_dataset \in BOOLEAN :
       LET r == CreateDatasets(session.task_name, session.tokenizer, data_dir,
                               create_test_dataset, cache, rawdir)
       IN /\ ds' = IF r.built = <<>> THEN ds ELSE r.built[Len(r.built)]
          /\ cache' = r.fs
          /\ entry' = [entry EXCEPT !["create_datasets"] =
                         [status |-> r.status, msg |-> r.msg,
                          reads |-> Count(r.built, ReadRaw),
                          writes |-> Count(r.built, WroteCache), acc |-> <<0, 0>>]]
  /\ UNCHANGED <<proc, session, rawdir, ncalls,
               trainer, model, inputs, result,
                 influences, topn, indices>>

EntryGlueComputeMetrics ==
  /\ entry["glue_compute_metrics"].status = "none"
  /\ \E preds \in PredInputs, labels \in PredInputs :
       LET r == GlueComputeMetrics(session.task_name, preds, labels)
       IN entry' = [entry EXCEPT !["glue_compute_metrics"] =
                      [status |-> r.status, msg |-> r.msg, reads |-> 0,
                       writes |-> 0, acc |-> r.acc]]
  /\ UNCHANGED <<proc, session, rawdir, cache, ds, ncalls,
               trainer, model, inputs, result,
                 influences, topn, indices>>

\* one run calls each entry point at most once, with one task name and
\* tokenizer, on a data directory that holds some of the task's raw files
InitEntry ==
  /\ proc = NoProc
  /\ \E task_name \in TaskNameInputs, tokenizer \in Tokenizers :
       /\ session = [task_name |-> task_name, tokenizer |-> tokenizer, mode |-> ""]
       /\ rawdir \in DirsOver(UNION {SplitFiles(task_name, mode) : mode \in Splits},
                              EntryFiles(task_name))
  /\ cache = <<>>
  /\ ds = NoDataset
  /\ ncalls = 0
  /\ entry = NoEntry
  /\ NoInference
  /\ NoInfluences

NextEntry == EntryNewDataset \/ EntryCreateDatasets \/ EntryGlueComputeMetrics

SpecEntry == InitEntry /\ [][NextEntry]_vars

\* ---------------------------------------------- inference calls (SpecPredict)
\* predict on the trainer, the model and the batch drawn at the start; the
\* batch is the caller's dictionary, which the call rebinds
CallPredict ==
  /\ result.predict.status = "none"
  /\ \E noise \in [1..MaxBatch -> NumLabels] :
       LET r == Predict(trainer, model, inputs, noise)
       IN /\ inputs' = r.inputs
          /\ result' = [result EXCEPT !.predict = r]
  /\ UNCHANGED <<proc, session, rawdir, cache, ds, ncalls, entry, trainer, model,
                 influences, topn, indices>>

\* compute_BERT_CLS_feature on the model and the tensors of the batch
CallComputeBERTCLSFeature ==
  /\ result.compute_BERT_CLS_feature.status = "none"
  /\ result' = [result EXCEPT !.compute_BERT_CLS_feature =
                  ComputeBERTCLSFeature(model, Get(inputs, "input_ids"),
                                        Get(inputs, "attention_mask"),
                                        Get(inputs, "token_type_ids"))]
  /\ UNCHANGED <<proc, session, rawdir, cache, ds, ncalls, entry,
                 trainer, model, inputs,
                 influences, topn, indices>>

InitPredict ==
  /\ proc = NoProc
  /\ session = NoSession
  /\ rawdir = <<>>
  /\ cache = <<>>
  /\ ds = NoDataset
  /\ ncalls = 0
  /\ entry = NoEntry
  /\ trainer \in TrainerInputs
  /\ model \in ModelInputs
  /\ inputs \in BatchInputs
  /\ result = NoResult
  /\ NoInfluences

NextPredict == CallPredict \/ CallComputeBERTCLSFeature

SpecPredict == InitPredict /\ [][NextPredict]_vars

\* ------------------------------------------ influence indices (SpecInfluence)
\* one call on the dictionary and the n drawn at the start
CallGetHelpfulHarmful ==
  /\ indices.status = "none"
  /\ indices' = get_helpful_harmful_indices_from_influences_dict(influences, topn)
  /\ UNCHANGED <<proc, session, rawdir, cache, ds, ncalls, entry,
                 trainer, model, inputs, result, influences, topn>>

InitInfluence ==
  /\ proc = NoProc
  /\ session = NoSession
  /\ rawdir = <<>>
  /\ cache = <<>>
  /\ ds = NoDataset
  /\ ncalls = 0
  /\ entry = NoEntry
  /\ NoInference
  /\ influences \in DictInputs
  /\ topn \in TopNInputs
  /\ indices = NoIndices

NextInfluence == CallGetHelpfulHarmful

SpecInfluence == InitInfluence /\ [][NextInfluence]_vars

\* ------------------------------------------------------ processor claims
\* the raw label strings a task's files may carry
KnownRawLabels(task) ==
  CASE task \in {"mnli", "mnli-mm", "mnli-2", "mnli-2-mm"} ->
         {"contradiction", "entailment", "neutral"}
    [] task = "hans" -> {"non-entailment", "entailment"}
    [] task = "amazon" -> {"0", "1", "2", "3", "4"}
    [] task = "anli" -> {"e", "n", "c"}

Range(f) == {f[x] : x \in DOMAIN f}

\* the lines of the file the call reads
ProcLines == rawdir[RawFileName(glue_processors[proc.task], proc.mode)]

\* the data rows of the call's file whose label is outside the task's set
UnknownRows ==
  {k \in DataRows(ProcLines) : ProcLines[k].label \notin KnownRawLabels(proc.task)}

ReadsFile ==
  /\ proc.op = "get_examples"
  /\ SplitFiles(proc.task, proc.mode) \subseteq DOMAIN rawdir
  /\ SplitFiles(proc.task, proc.mode) # {}

\* C2: get_examples of every registered processor, on a file with a data row
\* whose label is outside the task's label set, fails with the label error of
\* the first such row, and never returns an Example whose label is outside
\* the processor's vocabulary.
C2_UnknownLabelRejected ==
  /\ (ReadsFile /\ UnknownRows # {}) =>
       (proc.status = "ValueError" /\ proc.row = Min(UnknownRows))
  /\ (proc.op = "get_examples" /\ proc.status = "ok") =>
       \A j \in DOMAIN proc.examples :
         proc.examples[j].label
           \in Range(get_labels(glue_processors[proc.task])) \cup {NoneLabel}

\* C3: the two-label NLI processors turn every data row of a train or dev
\* file labelled contradiction or neutral into an Example labelled
\* non_entailment and every row labelled entailment into an Example labelled
\* entailment, one Example per data row, each label in get_labels(); a file
\* whose labels are all three-way labels converts without error.
C3_BinaryCollapse ==
  (ReadsFile /\ proc.task \in {"mnli-2", "mnli-2-mm"} /\ proc.mode \in {"train", "dev"}) =>
    /\ (UnknownRows = {}) => proc.status = "ok"
    /\ proc.status = "ok" =>
         /\ Len(proc.examples) = Cardinality(DataRows(ProcLines))
         /\ \A j \in DOMAIN proc.examples :
              LET raw == ProcLines[j + 1].label
                  got == proc.examples[j].label
              IN /\ raw \in {"contradiction", "neutral"} => got = "non_entailment"
                 /\ raw = "entailment" => got = "entailment"
                 /\ got \in Range(get_labels(glue_processors[proc.task]))

C3_Witness ==
  /\ proc.op = "get_examples"
  /\ proc.task = "mnli-2-mm"
  /\ proc.mode = "dev"
  /\ proc.status = "ok"
  /\ Len(proc.examples) = 2
  /\ ProcLines[2].label = "neutral"
  /\ ProcLines[3].label = "entailment"
  /\ proc.examples[1].label = "non_entailment"
  /\ proc.examples[2].label = "entailment"

\* the label the claims give a raw HANS or ANLI label
Normalized(task, raw) ==
  CASE task = "hans" /\ raw = "non-entailment" -> "non_entailment"
    [] task = "hans" /\ raw = "entailment" -> "entailment"
    [] task = "anli" /\ raw = "e" -> "entailment"
    [] task = "anli" /\ raw = "n" -> "neutral"
    [] task = "anli" /\ raw = "c" -> "contradiction"
    [] OTHER -> "?"

\* C4: the HANS processor maps non-entailment to non_entailment and
\* entailment to entailment, the ANLI processor maps e, n, c to entailment,
\* neutral, contradiction; both skip the first line as the header and turn
\* each remaining line into exactly one Example, in file order, whose label
\* is in get_labels().
C4_LabelNormalization ==
  (ReadsFile /\ proc.task \in {"hans", "anli"}) =>
    /\ (UnknownRows = {}) => proc.status = "ok"
    /\ proc.status = "ok" =>
         /\ Len(proc.examples) = Cardinality(DataRows(ProcLines))
         /\ \A j \in DOMAIN proc.examples :
              /\ proc.examples[j].guid = <<proc.mode, j>>
              /\ proc.examples[j].label
                   = Normalized(proc.task, ProcLines[j + 1].label)
              /\ proc.examples[j].label
                   \in Range(get_labels(glue_processors[proc.task]))

C4_Witness ==
  /\ proc.op = "get_examples"
  /\ proc.task = "hans"
  /\ proc.status = "ok"
  /\ Len(ProcLines) = 3
  /\ ProcLines[2].label = "non-entailment"
  /\ ProcLines[3].label = "entailment"
  /\ proc.examples = << [guid |-> <<proc.mode, 1>>, label |-> "non_entailment"],
                        [guid |-> <<proc.mode, 2>>, label |-> "entailment"] >>

\* C6: for every registered task, get_labels() has as many labels as
\* glue_tasks_num_labels declares for the task, which declares a count for
\* every registered task.
C6_DeclaredLabelCount ==
  proc.op = "get_labels" =>
    /\ proc.task \in DOMAIN glue_tasks_num_labels
    /\ Len(proc.labels) = glue_tasks_num_labels[proc.task]

\* -------------------------------------------------------- dataset claims
\* C1: of two constructions in a row for one cache key, the second with
\* overwrite_cache disabled, only the first reads the raw file and converts;
\* the second reads the cache file, leaves it as it is, and its features are
\* the sequence the first construction held and the file holds, in order.
C1_SecondConstructionLoadsCache ==
  [][ ( /\ ncalls' = ncalls + 1
        /\ ds.status = "ok"
        /\ ds'.status = "ok"
        /\ ds'.path = ds.path
        /\ ~ds'.overwrite_cache )
      => ( /\ ~ds'.rawread
           /\ ~ds'.converted
           /\ ds'.loaded
           /\ ds'.features = ds.features
           /\ ds'.features = cache[ds.path]
           /\ cache' = cache ) ]_vars

C1_Witness ==
  /\ ncalls = 2
  /\ ds.status = "ok"
  /\ ~ds.overwrite_cache
  /\ ds.loaded
  /\ Len(ds.features) = 2
  /\ ds.features[1] # ds.features[2]
  /\ cache[ds.path] = ds.features

\* C8: for a task of the label-swap subset and a tokenizer class of the
\* RoBERTa/XLM-RoBERTa/BART family the construction gets past the label step
\* and label_list is the processor's vocabulary with positions 1 and 2
\* exchanged; for every other combination label_list is the vocabulary.
C8_LabelSwap ==
  (ds.status # "none" /\ ds.task_name \in TaskNames) =>
    LET voc == get_labels(glue_processors[ds.task_name])
    IN IF ds.task_name \in SwapTasks /\ ds.tokenizer \in SwapTokenizers
       THEN /\ ds.status # "IndexError"
            /\ Len(ds.label_list) = Len(voc)
            /\ Range(ds.label_list) = Range(voc)
            /\ ds.label_list[1] = voc[1]
            /\ ds.label_list[2] = voc[3]
            /\ ds.label_list[3] = voc[2]
       ELSE ds.label_list = voc

C10_FailureLeavesCache ==
  [][ /\ (ncalls' = ncalls + 1 /\ ds'.status # "ok") => cache' = cache
      /\ (cache' # cache) =>
           /\ ds'.status = "ok"
           /\ ds'.converted
           /\ Len(ds'.features) = ds'.nexamples
           /\ DOMAIN cache' = DOMAIN cache \cup {ds'.path}
           /\ cache'[ds'.path] = ds'.features
           /\ \A q \in DOMAIN cache \ {ds'.path} : cache'[q] = cache[q] ]_vars

C10_Witness ==
  /\ ds.status = "KeyError"
  /\ ds.converted
  /\ ds.overwrite_cache
  /\ ds.path \in DOMAIN cache
  /\ Len(cache[ds.path]) = 1
  /\ ds.nexamples = 2

\* ---------------------------------------------------- entry-point claims
\* the entry points that raised for the task name
Rejecting == {fn \in EntryPoints : entry[fn].msg \in TaskRejectionMessages}

\* C5: CustomGlueDataset, create_datasets and glue_compute_metrics reject a
\* task name that is not registered, all with one kind of exception, before
\* a raw file is read or a cache file written; none of them rejects a
\* registered task name.
C5_TaskNameCheck ==
  /\ \A f \in Rejecting, g \in Rejecting : entry[f].status = entry[g].status
  /\ \A fn \in EntryPoints :
       entry[fn].status \notin {"none", "AssertionError"} =>
         IF session.task_name \in TaskNames
         THEN fn \notin Rejecting
         ELSE fn \in Rejecting /\ entry[fn].reads = 0 /\ entry[fn].writes = 0

\* ------------------------------------------------------- inference claims
\* C7: whenever past_index is enabled (>= 0) or the model is in training
\* mode, a call of predict raises ValueError, without invoking the model and
\* leaving the batch as it was.
C7_PredictValidation ==
  [][(/\ result.predict.status = "none"
      /\ result'.predict.status # "none"
      /\ (trainer.args.past_index >= 0 \/ model.training))
     => (/\ result'.predict.status = "ValueError"
         /\ ~result'.predict.invoked
         /\ inputs' = inputs)]_vars

\* C11: a call of predict that gets past the past_index check shifts the
\* labels only when the batch carries labels: with labels L, what it returns
\* is a score per example, the label indices L - 1 and a loss; with no
\* labels it returns, a score per example and no loss.
C11_LabelShiftWhenPresent ==
  [][(/\ result.predict.status = "none"
      /\ result'.predict.status # "none"
      /\ trainer.args.past_index < 0)
     => LET L == Get(inputs, "labels")
            n == Len(inputs["input_ids"].data)
            r == result'.predict
        IN IF L # NoneTensor
           THEN /\ r.status \notin {"KeyError", "TypeError"}
                /\ r.status = "ok" =>
                     /\ Len(r.preds) = n
                     /\ r.label_ids = [i \in DOMAIN L.data |-> L.data[i] - 1]
                     /\ r.step_eval_loss # NoneLoss
           ELSE /\ r.status = "ok"
                /\ Len(r.preds) = n
                /\ r.step_eval_loss = NoneLoss]_vars

\* ------------------------------------------------- influence-index claims
\* the influence of a key of the dictionary
InfluenceOf(k) ==
  influences[CHOOSE i \in 1..Len(influences) : influences[i][1] = k][2]

HelpfulKeys == {influences[i][1] : i \in {j \in 1..Len(influences) : Lt(influences[j][2], 0)}}

HarmfulKeys == {influences[i][1] : i \in {j \in 1..Len(influences) : Lt(0, influences[j][2])}}

\* s lists keys of K without repetition, strongest influence first, and no
\* key of K it leaves out is stronger than one it lists
StrongestFirst(s, K, sign) ==
  /\ Range(s) \subseteq K
  /\ Cardinality(Range(s)) = Len(s)
  /\ \A i \in 1..Len(s), j \in 1..Len(s) :
       i < j => sign * InfluenceOf(s[i]) >= sign * InfluenceOf(s[j])
  /\ \A k \in K \ Range(s), i \in 1..Len(s) :
       sign * InfluenceOf(s[i]) >= sign * InfluenceOf(k)

\* what the call is to give for the dictionary and the n it was given
HelpfulHarmfulAsStated ==
  /\ Range(indices.helpful) \cap Range(indices.harmful) = {}
  /\ StrongestFirst(indices.helpful, HelpfulKeys, -1)
  /\ StrongestFirst(indices.harmful, HarmfulKeys, 1)
  /\ IF topn = NoneN
     THEN /\ indices.status = "ok"
          /\ Range(indices.helpful) = HelpfulKeys
          /\ Range(indices.harmful) = HarmfulKeys
     ELSE IF Cardinality(HelpfulKeys) < topn \/ Cardinality(HarmfulKeys) < topn
     THEN indices.status = "ValueError"
     ELSE /\ indices.status = "ok"
          /\ Len(indices.helpful) = topn
          /\ Len(indices.harmful) = topn

\* C12 as claimed: for every dictionary and every n, the helpful list is the
\* keys of negative influence, most negative first, the harmful list the
\* keys of positive influence, most positive first, the two disjoint and
\* without the keys of influence 0; given n, the call raises ValueError when
\* fewer than n helpful or harmful keys exist and otherwise returns the
\* first n of each ordering, both lists of length n.
C12_HelpfulHarmful ==
  indices.status # "none" => HelpfulHarmfulAsStated

\* C12 as amended: the same, for the dictionaries without a NaN influence
\* and n absent or at least 0.
C12_HelpfulHarmfulComparable ==
  ( /\ indices.status # "none"
    /\ \A i \in 1..Len(influences) : influences[i][2] # NaN
    /\ (topn = NoneN \/ topn >= 0) )
  => HelpfulHarmfulAsStated

C12_Witness ==
  /\ indices.status = "ok"
  /\ topn = 1
  /\ Len(influences) = 3
  /\ influences[1][2] = -1
  /\ influences[2][2] = -2
  /\ influences[3][2] = 2
  /\ indices.helpful = <<influences[2][1]>>
  /\ indices.harmful = <<influences[3][1]>>

====
